---- MODULE Spec2Model ----
(***************************************************************************)
(* Model of the Invoice-App screens (NewInvoice.tsx, Preview.tsx,           *)
(* Services.tsx), of the AsyncStorage keys they share and of the           *)
(* number-to-words conversion of Preview.tsx.                              *)
(*                                                                         *)
(* Texts are sequences of one-character strings, so that trim(), parseInt  *)
(* and String() are computed and not assumed.  A JavaScript number is a    *)
(* record [t, v]: t = "num" for a finite integer v, "nan" for NaN and      *)
(* "null" for the null that JSON.stringify writes in place of NaN.         *)
(*                                                                         *)
(* AsyncStorage serves its requests in the order they are issued, so the   *)
(* effect of getItem/setItem is taken when the request is issued and the   *)
(* continuation after the await is a later step, taken in issue order      *)
(* from the queue `pending`.                                               *)
(***************************************************************************)
EXTENDS Integers, Sequences, FiniteSets, TLC

\* ------------------------------------------------------------------ bounds
MaxClock == 2
MaxItems == 2
MaxSaveItems == 1
MaxStored == 2
MaxPending == 2
MaxSaveStored == 2
MaxSavePending == 1
MaxOrderStored == 1
MaxServices == 1
MaxCatalogPending == 2
MaxDocumentItems == 2
MaxDocumentCalls == 2
MaxVisitPending == 3
MaxEarlyPending == 3
MaxViewerPending == 2
MaxExports == 2

\* ------------------------------------------------------- JavaScript values
Num(n) == [t |-> "num", v |-> n]
NaN == [t |-> "nan", v |-> 0]
Null == [t |-> "null", v |-> 0]

ToNumber(x) == IF x.t = "null" THEN Num(0) ELSE x

JsMul(a, b) ==
    LET x == ToNumber(a)
        y == ToNumber(b)
    IN  IF x.t = "nan" \/ y.t = "nan" THEN NaN ELSE Num(x.v * y.v)

JsAdd(a, b) ==
    LET x == ToNumber(a)
        y == ToNumber(b)
    IN  IF x.t = "nan" \/ y.t = "nan" THEN NaN ELSE Num(x.v + y.v)

JsLessThanZero(a) ==
    LET x == ToNumber(a) IN x.t = "num" /\ x.v < 0

Digits == <<"0", "1", "2", "3", "4", "5", "6", "7", "8", "9">>

IsDigit(c) == \E i \in 1..10 : Digits[i] = c

DigitValue(c) == (CHOOSE i \in 1..10 : Digits[i] = c) - 1

IsSpace(c) == c \in {" ", "\t", "\n"}

RECURSIVE TrimStart(_)
TrimStart(s) ==
    IF s # <<>> /\ IsSpace(Head(s)) THEN TrimStart(Tail(s)) ELSE s

RECURSIVE TrimEnd(_)
TrimEnd(s) ==
    IF s # <<>> /\ IsSpace(s[Len(s)]) THEN TrimEnd(SubSeq(s, 1, Len(s) - 1)) ELSE s

Trim(s) == TrimEnd(TrimStart(s))

RECURSIVE DigitPrefixValue(_, _)
DigitPrefixValue(s, acc) ==
    IF s # <<>> /\ IsDigit(Head(s))
    THEN DigitPrefixValue(Tail(s), acc * 10 + DigitValue(Head(s)))
    ELSE acc

\* parseInt(s): leading white space, an optional sign, then the longest run
\* of decimal digits; NaN when there is no digit.
ParseInt(s) ==
    LET t == TrimStart(s)
        neg == t # <<>> /\ Head(t) = "-"
        u == IF t # <<>> /\ Head(t) \in {"-", "+"} THEN Tail(t) ELSE t
    IN  IF u = <<>> \/ ~IsDigit(Head(u))
        THEN NaN
        ELSE Num((IF neg THEN -1 ELSE 1) * DigitPrefixValue(u, 0))

RECURSIVE IntToStr(_)
IntToStr(n) ==
    IF n < 10 THEN <<Digits[n + 1]>>
    ELSE IntToStr(n \div 10) \o <<Digits[(n % 10) + 1]>>

\* s.slice(-k)
SliceLast(s, k) ==
    IF Len(s) <= k THEN s ELSE SubSeq(s, Len(s) - k + 1, Len(s))

\* JSON.parse(JSON.stringify(x)) on a number: NaN is written as null.
JsonNum(x) == IF x.t = "nan" THEN Null ELSE x

JsonItem(it) ==
    [it EXCEPT !.ratePaise = JsonNum(@), !.quantity = JsonNum(@)]

JsonInvoice(inv) ==
    [inv EXCEPT !.items = [i \in 1..Len(@) |-> JsonItem(@[i])],
                !.totalPaise = JsonNum(@)]

JsonInvoices(list) == [i \in 1..Len(list) |-> JsonInvoice(list[i])]

\* -------------------------------------------------------------- the inputs
CustomerNames == {<<>>, <<" ">>, <<" ", "A", " ">>}
QtyTexts == {<<>>, <<"2">>, <<"-", "1">>, <<".">>, <<"3", ".", "5">>}
SaveNames == {<<" ">>, <<" ", "A", " ">>}
SaveQtyTexts == {<<"2">>}
OverlapNames == {<<"A">>}
OverlapQtyTexts == {<<"2">>}
HistoryNames == {<<"A">>}
HistoryQtyTexts == {<<".">>}
CroreGroups == {0, 1, 12, 999, 1000}
LakhGroups == {0, 1, 12, 99}
ThousandGroups == {0, 34, 70, 99}
RemainderGroups == {0, 5, 19, 40, 567, 900}
ServiceNames == {<<" ">>, <<" ", "H">>}
CatalogRateTexts == {<<"1", ".", "2", "3", "9">>}
RateNames == {<<"H">>}
RateTexts == {<<>>, <<"-", "5">>, <<"x">>, <<"1", ".", "2", "3", "9">>}
BillNoTexts == {<<"B">>}
DateTexts == {<<"D">>}

Service1 == [id |-> <<"7">>, name |-> <<"F">>, ratePaise |-> Num(12345)]
Service2 == [id |-> <<"8">>, name |-> <<"G">>, ratePaise |-> Num(250)]
Catalogs == {<<>>, <<Service1>>, <<Service2, Service1>>}

NoNotice == "none"

\* ------------------------------------------------------------ AsyncStorage
\* The text under a key: no text at all, the empty text, a text that is not
\* JSON, the JSON of a value that is not an array, or the JSON of an array.
StoreAbsent == [kind |-> "absent", list |-> <<>>]
StoreEmptyText == [kind |-> "empty", list |-> <<>>]
StoreNotJson == [kind |-> "invalid", list |-> <<>>]
StoreNotArray == [kind |-> "object", list |-> <<>>]
StoreArray(list) == [kind |-> "array", list |-> list]

\* loadInvoices / loadServices: `if (!raw) return []; return JSON.parse(raw)`
\* inside a try whose catch returns [].  The value returned is an array
\* unless the text is the JSON of something else, which is returned as it is;
\* loadInvoices and loadServices give the elements of the value returned, an
\* object having none.
ParsesToArray(raw) == raw.kind # "object"
loadInvoices(raw) == IF raw.kind = "array" THEN raw.list ELSE <<>>
loadServices(raw) == IF raw.kind = "array" THEN raw.list ELSE <<>>

\* The details that loadBusinessDetails returns when none are stored.
DefaultBusiness ==
    [businessName |-> <<"Ujjawal Refrigeration">>,
     address |-> <<"53/8, Samajwadi Indra Nagar, Behind: Polytechnic College Indore">>,
     phone |-> <<"Mob.9893222107", "\n", "Mob(W).9039378360">>,
     email |-> <<"ujjawal.refrigeration@gmail.com">>]

\* loadBusinessDetails(): nothing is stored under business_details_v1.
loadBusinessDetails == DefaultBusiness

VARIABLES
    now,            \* Date.now()
    nav,            \* the navigator's stack of screens, top last
    notice,         \* the alert being shown, or NoNotice
    servicesStore,  \* AsyncStorage key services_v1
    invoicesStore,  \* AsyncStorage key invoices_v1
    newInvoice,     \* state of the NewInvoice screen
    preview,        \* state of the Preview screen and its exports in flight
    pending,        \* awaited storage requests, oldest first
    servicesScreen, \* state of the Services screen
    calc            \* a function of Preview.tsx, its argument and its result

vars == <<now, nav, notice, servicesStore, invoicesStore, newInvoice, preview, pending,
          servicesScreen, calc>>

Top == nav[Len(nav)]
Mounted(stack, screen) == \E i \in 1..Len(stack) : stack[i] = screen

\* No confirmation dialog; `selected` is the selectedInvoice the dialog closes
\* over, <<>> for null.
NoDialog == [open |-> FALSE, id |-> <<>>, list |-> <<>>, selected |-> <<>>]

NewInvoiceInitial ==
    [customerName |-> <<>>, billNo |-> <<>>, date |-> <<>>, items |-> <<>>,
     services |-> <<>>, modalVisible |-> FALSE]

\* selectedInvoice and businessDetails are <<>> for null; `exports` are the
\* runs of generatePDF that wait for printing or sharing.
PreviewInitial ==
    [invoices |-> <<>>, confirmDelete |-> NoDialog, selectedInvoice |-> <<>>,
     businessDetails |-> <<>>, showPreview |-> FALSE, isGeneratingPDF |-> FALSE,
     exports |-> <<>>]

\* Services.tsx: services, modalVisible, editing (null is <<>>), name, rate.
ServicesInitial ==
    [services |-> <<>>, modalVisible |-> FALSE, editing |-> <<>>,
     name |-> <<>>, rate |-> <<>>]

\* No function of Preview.tsx is being computed.
NoCalc == [fn |-> "none", arg |-> [crores |-> 0, rest |-> 0], out |-> <<>>, done |-> FALSE]

NoInvoice ==
    [id |-> <<>>, billNo |-> <<>>, date |-> <<>>, customerName |-> <<>>,
     items |-> <<>>, totalPaise |-> Num(0), createdAt |-> 0]

\* An awaited request: its kind, whether it succeeded, the invoice and the
\* list it carries, whether the screen that issued it is gone, and whether
\* the value it read is an array.
Request(k, ok, inv, list, orphan) ==
    [k |-> k, ok |-> ok, inv |-> inv, list |-> list, orphan |-> orphan, array |-> TRUE]

LoadRequest(k, raw, list) ==
    [Request(k, TRUE, NoInvoice, list, FALSE) EXCEPT !.array = ParsesToArray(raw)]

EditorKinds == {"svcLoad", "saveLoad", "saveWrite"}
PreviewKinds == {"pvLoad", "bizLoad", "delWrite"}
CatalogKinds == {"catLoad", "catWrite"}

\* Requests issued by a screen that has since been unmounted still resolve,
\* but the state setters of that screen no longer have any effect.
Orphaned(q, kinds) ==
    [i \in 1..Len(q) |->
        IF q[i].k \in kinds THEN [q[i] EXCEPT !.orphan = TRUE] ELSE q[i]]

\* The mount effect's dd/mm/yyyy of today; the day does not change within the
\* few milliseconds the clock of the model covers.
FormatToday == <<"0", "2", "/", "1", "1", "/", "2", "0", "2", "6">>

BillNumber(t) == <<"I", "N", "V">> \o SliceLast(IntToStr(t), 6)

\* The user can touch a screen when it is on top and no dialog covers it.
CanTouch(screen) ==
    Top = screen /\ notice = NoNotice /\ ~preview.confirmDelete.open

\* --------------------------------------------------------------- navigation
\* navigation.navigate(name): go back to the screen when the stack holds it,
\* push it otherwise.
NavigateStack(stack, screen) ==
    IF Mounted(stack, screen)
    THEN SubSeq(stack, 1, CHOOSE i \in 1..Len(stack) : stack[i] = screen)
    ELSE Append(stack, screen)

\* State of the screens and of the request queue after the stack changes from
\* `nav` to `stack`, given the screens' states ni, pv and the queue q just
\* before: unmounted screens lose their state, a freshly mounted NewInvoice
\* runs its mount effect, and Preview's focus effect runs when it gets focus.
NewInvoiceMounts(stack) == Mounted(stack, "NewInvoice") /\ ~Mounted(nav, "NewInvoice")
NewInvoiceUnmounts(stack) == ~Mounted(stack, "NewInvoice") /\ Mounted(nav, "NewInvoice")
PreviewUnmounts(stack) == ~Mounted(stack, "Preview") /\ Mounted(nav, "Preview")
PreviewFocuses(stack) == stack[Len(stack)] = "Preview" /\ Top # "Preview"
ServicesUnmounts(stack) == ~Mounted(stack, "Services") /\ Mounted(nav, "Services")

NewInvoiceAfterNav(stack, ni) ==
    IF NewInvoiceMounts(stack)
    THEN [NewInvoiceInitial EXCEPT !.date = FormatToday, !.billNo = BillNumber(now)]
    ELSE IF NewInvoiceUnmounts(stack) THEN NewInvoiceInitial ELSE ni

PreviewAfterNav(stack, pv) ==
    IF PreviewUnmounts(stack)
    THEN [PreviewInitial EXCEPT
             !.exports = [i \in 1..Len(pv.exports) |-> [pv.exports[i] EXCEPT !.orphan = TRUE]]]
    ELSE pv

ServicesAfterNav(stack, sv) ==
    IF ServicesUnmounts(stack) THEN ServicesInitial ELSE sv

PendingAfterNav(stack, q) ==
    LET q1 == IF NewInvoiceUnmounts(stack) THEN Orphaned(q, EditorKinds) ELSE q
        q2 == IF PreviewUnmounts(stack) THEN Orphaned(q1, PreviewKinds) ELSE q1
        q3 == IF ServicesUnmounts(stack) THEN Orphaned(q2, CatalogKinds) ELSE q2
        q4 == IF NewInvoiceMounts(stack)
              THEN Append(q3, LoadRequest("svcLoad", servicesStore, loadServices(servicesStore)))
              ELSE q3
    IN  IF PreviewFocuses(stack)
        THEN Append(q4, LoadRequest("pvLoad", invoicesStore, loadInvoices(invoicesStore)))
        ELSE q4

GoTo(stack, ni, pv, q) ==
    /\ nav' = stack
    /\ newInvoice' = NewInvoiceAfterNav(stack, ni)
    /\ preview' = PreviewAfterNav(stack, pv)
    /\ servicesScreen' = ServicesAfterNav(stack, servicesScreen)
    /\ pending' = PendingAfterNav(stack, q)

\* --------------------------------------------------------------- NewInvoice
RECURSIVE ReduceTotal(_, _)
ReduceTotal(its, sum) ==
    IF its = <<>> THEN sum
    ELSE ReduceTotal(Tail(its), JsAdd(sum, JsMul(Head(its).ratePaise, Head(its).quantity)))

RECURSIVE ReduceRates(_, _)
ReduceRates(its, sum) ==
    IF its = <<>> THEN sum
    ELSE ReduceRates(Tail(its), JsAdd(sum, Head(its).ratePaise))

\* A total that forgets the quantities.
calculateTotalOfRates(its) == ReduceRates(its, Num(0))

\* items.reduce((sum, item) => sum + item.ratePaise * item.quantity, 0)
calculateTotal(its) == ReduceTotal(its, Num(0))

ItemIds(its) == {its[i].id : i \in 1..Len(its)}

\* An item that forgets the default quantity.
NewItemWithoutQuantity(service, t) ==
    [id |-> IntToStr(t), serviceId |-> service.id, serviceName |-> service.name,
     ratePaise |-> service.ratePaise, quantity |-> Num(0)]

NewItem(service, t) ==
    [id |-> IntToStr(t), serviceId |-> service.id, serviceName |-> service.name,
     ratePaise |-> service.ratePaise, quantity |-> Num(1)]

WithQuantity(its, id, num) ==
    [i \in 1..Len(its) |->
        IF its[i].id = id THEN [its[i] EXCEPT !.quantity = num] ELSE its[i]]

WithoutItem(its, id) ==
    LET Keep(it) == it.id # id IN SelectSeq(its, Keep)

SetCustomerName(txt) ==
    /\ CanTouch("NewInvoice") /\ ~newInvoice.modalVisible
    /\ newInvoice' = [newInvoice EXCEPT !.customerName = txt]
    /\ UNCHANGED <<now, nav, notice, servicesStore, invoicesStore, preview, pending, servicesScreen, calc>>

SetBillNo(txt) ==
    /\ CanTouch("NewInvoice") /\ ~newInvoice.modalVisible
    /\ newInvoice' = [newInvoice EXCEPT !.billNo = txt]
    /\ UNCHANGED <<now, nav, notice, servicesStore, invoicesStore, preview, pending, servicesScreen, calc>>

SetDate(txt) ==
    /\ CanTouch("NewInvoice") /\ ~newInvoice.modalVisible
    /\ newInvoice' = [newInvoice EXCEPT !.date = txt]
    /\ UNCHANGED <<now, nav, notice, servicesStore, invoicesStore, preview, pending, servicesScreen, calc>>

openServicePicker ==
    /\ CanTouch("NewInvoice") /\ ~newInvoice.modalVisible
    /\ IF newInvoice.services = <<>>
       THEN /\ notice' = "No services available. Please add services first."
            /\ UNCHANGED newInvoice
       ELSE /\ newInvoice' = [newInvoice EXCEPT !.modalVisible = TRUE]
            /\ UNCHANGED notice
    /\ UNCHANGED <<now, nav, servicesStore, invoicesStore, preview, pending, servicesScreen, calc>>

closeServicePicker ==
    /\ CanTouch("NewInvoice") /\ newInvoice.modalVisible
    /\ newInvoice' = [newInvoice EXCEPT !.modalVisible = FALSE]
    /\ UNCHANGED <<now, nav, notice, servicesStore, invoicesStore, preview, pending, servicesScreen, calc>>

addService(service) ==
    /\ CanTouch("NewInvoice") /\ newInvoice.modalVisible
    /\ newInvoice' = [newInvoice EXCEPT !.items = Append(@, NewItem(service, now)),
                                        !.modalVisible = FALSE]
    /\ UNCHANGED <<now, nav, notice, servicesStore, invoicesStore, preview, pending, servicesScreen, calc>>

updateQuantity(id, qty) ==
    LET num == ParseInt(IF qty = <<>> THEN <<"0">> ELSE qty)
    IN  /\ CanTouch("NewInvoice") /\ ~newInvoice.modalVisible
        /\ IF JsLessThanZero(num)
           THEN UNCHANGED newInvoice
           ELSE newInvoice' = [newInvoice EXCEPT !.items = WithQuantity(@, id, num)]
        /\ UNCHANGED <<now, nav, notice, servicesStore, invoicesStore, preview, pending, servicesScreen, calc>>

removeItem(id) ==
    /\ CanTouch("NewInvoice") /\ ~newInvoice.modalVisible
    /\ newInvoice' = [newInvoice EXCEPT !.items = WithoutItem(@, id)]
    /\ UNCHANGED <<now, nav, notice, servicesStore, invoicesStore, preview, pending, servicesScreen, calc>>

\* A validation that forgets to trim.
NameMissingUntrimmed(name) == name = <<>>

\* !customerName.trim()
NameMissing(name) == Trim(name) = <<>>

\* A validation that lets an empty list through.
NoItemsUnchecked(its) == FALSE

\* items.length === 0
NoItems(its) == Len(its) = 0

\* A push that drops what was loaded.
PushOntoNothing(list, inv) == <<inv>>

\* invoices.push(invoice)
PushInvoice(list, inv) == Append(list, inv)

Reversed(list) == [i \in 1..Len(list) |-> list[Len(list) + 1 - i]]

\* An invoice that lists the newest item first.
NewInvoiceOfReversed(ni, t) ==
    [id |-> IntToStr(t), billNo |-> ni.billNo, date |-> ni.date,
     customerName |-> Trim(ni.customerName), items |-> Reversed(ni.items),
     totalPaise |-> calculateTotal(ni.items), createdAt |-> t]

NewInvoiceOf(ni, t) ==
    [id |-> IntToStr(t), billNo |-> ni.billNo, date |-> ni.date,
     customerName |-> Trim(ni.customerName), items |-> ni.items,
     totalPaise |-> calculateTotal(ni.items), createdAt |-> t]

\* handlePreview up to its first await: the validation, the invoice, and
\* saveInvoice's call of loadInvoices, whose getItem is issued here.
handlePreview ==
    /\ CanTouch("NewInvoice") /\ ~newInvoice.modalVisible
    /\ IF NameMissing(newInvoice.customerName)
       THEN /\ notice' = "Please enter customer name"
            /\ UNCHANGED pending
       ELSE IF NoItems(newInvoice.items)
       THEN /\ notice' = "Please add at least one service"
            /\ UNCHANGED pending
       ELSE /\ pending' = Append(pending,
                   [LoadRequest("saveLoad", invoicesStore, loadInvoices(invoicesStore))
                       EXCEPT !.inv = NewInvoiceOf(newInvoice, now)])
            /\ UNCHANGED notice
    /\ UNCHANGED <<now, nav, servicesStore, invoicesStore, newInvoice, preview, servicesScreen, calc>>

\* saveInvoice after `await loadInvoices()`: push, which throws when the
\* value loaded is not an array, then setItem, which the store may refuse.
saveInvoice ==
    /\ pending # <<>> /\ Head(pending).k = "saveLoad"
    /\ \E accepted \in BOOLEAN :
         LET r == Head(pending)
             written == PushInvoice(r.list, r.inv)
             ok == r.array /\ accepted
         IN  /\ invoicesStore' = IF ok THEN StoreArray(JsonInvoices(written)) ELSE invoicesStore
             /\ pending' = Append(Tail(pending),
                    [Request("saveWrite", ok, r.inv, <<>>, r.orphan) EXCEPT !.array = r.array])
    /\ UNCHANGED <<now, nav, notice, servicesStore, newInvoice, preview, servicesScreen, calc>>

\* handlePreview after `await saveInvoice(invoice)`: reset and navigate, or
\* the catch branch.
handlePreviewSaved ==
    /\ pending # <<>> /\ Head(pending).k = "saveWrite"
    /\ LET r == Head(pending)
           reset == IF r.orphan THEN newInvoice
                    ELSE [newInvoice EXCEPT !.customerName = <<>>, !.items = <<>>,
                                            !.billNo = BillNumber(now)]
       IN  IF r.ok
           THEN /\ GoTo(NavigateStack(nav, "Preview"), reset, preview, Tail(pending))
                /\ UNCHANGED notice
           ELSE /\ notice' = "Error saving invoice. Please try again."
                /\ pending' = Tail(pending)
                /\ UNCHANGED <<nav, newInvoice, preview, servicesScreen>>
    /\ UNCHANGED <<now, servicesStore, invoicesStore, calc>>

\* The mount effect's `setServices(await loadServices())`.
servicesLoaded ==
    /\ pending # <<>> /\ Head(pending).k = "svcLoad"
    /\ newInvoice' = IF Head(pending).orphan THEN newInvoice
                     ELSE [newInvoice EXCEPT !.services = Head(pending).list]
    /\ pending' = Tail(pending)
    /\ UNCHANGED <<now, nav, notice, servicesStore, invoicesStore, preview, servicesScreen, calc>>

\* ------------------------------------------------------------------ Preview
RECURSIVE InsertNewestFirst(_, _)
InsertNewestFirst(sorted, inv) ==
    IF sorted = <<>> THEN <<inv>>
    ELSE IF Head(sorted).createdAt >= inv.createdAt
         THEN <<Head(sorted)>> \o InsertNewestFirst(Tail(sorted), inv)
         ELSE <<inv>> \o sorted

RECURSIVE SortFrom(_, _)
SortFrom(list, sorted) ==
    IF list = <<>> THEN sorted
    ELSE SortFrom(Tail(list), InsertNewestFirst(sorted, Head(list)))

\* A load that shows the collection in the order it is stored.
InStoredOrder(list) == list

\* loaded.sort((a, b) => b.createdAt - a.createdAt), a stable sort
SortNewestFirst(list) == SortFrom(list, <<>>)

WithoutInvoice(list, id) ==
    LET Keep(inv) == inv.id # id IN SelectSeq(list, Keep)

InvoiceIds(list) == {list[i].id : i \in 1..Len(list)}

\* The focus effect after `await loadInvoices()`; `loaded.sort` throws when
\* the value loaded is not an array, and the list is then left as it was.
\* Otherwise setInvoices, and loadBusinessDetails issues its getItem.
previewLoaded ==
    /\ pending # <<>> /\ Head(pending).k = "pvLoad"
    /\ preview' = IF Head(pending).orphan \/ ~Head(pending).array THEN preview
                  ELSE [preview EXCEPT !.invoices = SortNewestFirst(Head(pending).list)]
    /\ pending' = IF Head(pending).array
                  THEN Append(Tail(pending),
                              Request("bizLoad", TRUE, NoInvoice, <<>>, Head(pending).orphan))
                  ELSE Tail(pending)
    /\ UNCHANGED <<now, nav, notice, servicesStore, invoicesStore, newInvoice, servicesScreen, calc>>

\* The focus effect after `await loadBusinessDetails()`: setBusinessDetails.
businessLoaded ==
    /\ pending # <<>> /\ Head(pending).k = "bizLoad"
    /\ preview' = IF Head(pending).orphan THEN preview
                  ELSE [preview EXCEPT !.businessDetails = <<loadBusinessDetails>>]
    /\ pending' = Tail(pending)
    /\ UNCHANGED <<now, nav, notice, servicesStore, invoicesStore, newInvoice, servicesScreen, calc>>

\* if (showPreview && selectedInvoice && businessDetails): the screen shows
\* the document and not the list.
PreviewMode ==
    preview.showPreview /\ preview.selectedInvoice # <<>> /\ preview.businessDetails # <<>>

\* A row of the list is pressed.
viewInvoice(invoice) ==
    /\ CanTouch("Preview") /\ ~PreviewMode
    /\ preview' = [preview EXCEPT !.selectedInvoice = <<invoice>>, !.showPreview = TRUE]
    /\ UNCHANGED <<now, nav, notice, servicesStore, invoicesStore, newInvoice, pending, servicesScreen, calc>>

\* setShowPreview(false); setSelectedInvoice(null)
Closed(pv) == [pv EXCEPT !.showPreview = FALSE, !.selectedInvoice = <<>>]

\* The document's Back button.
closePreview ==
    /\ CanTouch("Preview") /\ PreviewMode
    /\ preview' = Closed(preview)
    /\ UNCHANGED <<now, nav, notice, servicesStore, invoicesStore, newInvoice, pending, servicesScreen, calc>>

\* deleteInvoice(id): the confirmation dialog, whose Delete button closes
\* over the list of the render that opened it.
deleteInvoice(id) ==
    /\ CanTouch("Preview")
    /\ ~PreviewMode
    /\ id \in InvoiceIds(preview.invoices)
    /\ preview' = [preview EXCEPT !.confirmDelete =
                       [open |-> TRUE, id |-> id, list |-> preview.invoices,
                        selected |-> preview.selectedInvoice]]
    /\ UNCHANGED <<now, nav, notice, servicesStore, invoicesStore, newInvoice, pending, servicesScreen, calc>>

cancelDelete ==
    /\ Top = "Preview" /\ preview.confirmDelete.open
    /\ preview' = [preview EXCEPT !.confirmDelete = NoDialog]
    /\ UNCHANGED <<now, nav, notice, servicesStore, invoicesStore, newInvoice, pending, servicesScreen, calc>>

\* selectedInvoice?.id === id, with the selectedInvoice of the dialog.
SelectedIs(selected, id) == selected # <<>> /\ selected[1].id = id

\* The Delete button up to its await: filter, setInvoices, setItem.  The
\* request keeps in `list` the selected invoice that its continuation closes.
confirmDelete ==
    /\ Top = "Preview" /\ preview.confirmDelete.open
    /\ \E ok \in BOOLEAN :
         LET dialog == preview.confirmDelete
             updated == WithoutInvoice(dialog.list, dialog.id)
             closes == IF SelectedIs(dialog.selected, dialog.id) THEN dialog.selected
                       ELSE <<>>
         IN  /\ preview' = [preview EXCEPT !.invoices = updated, !.confirmDelete = NoDialog]
             /\ invoicesStore' = IF ok THEN StoreArray(JsonInvoices(updated)) ELSE invoicesStore
             /\ pending' = Append(pending, Request("delWrite", ok, NoInvoice, closes, FALSE))
    /\ UNCHANGED <<now, nav, notice, servicesStore, newInvoice, servicesScreen, calc>>

\* The Delete button after `await AsyncStorage.setItem(...)`, or its catch.
deleteSettled ==
    /\ pending # <<>> /\ Head(pending).k = "delWrite"
    /\ notice' = IF Head(pending).ok THEN notice ELSE "Failed to delete invoice"
    /\ preview' = IF Head(pending).ok /\ ~Head(pending).orphan /\ Head(pending).list # <<>>
                  THEN Closed(preview)
                  ELSE preview
    /\ pending' = Tail(pending)
    /\ UNCHANGED <<now, nav, servicesStore, invoicesStore, newInvoice, servicesScreen, calc>>

\* The empty list's "+ Create Invoice" button.
createInvoice ==
    /\ CanTouch("Preview") /\ ~PreviewMode
    /\ preview.invoices = <<>>
    /\ GoTo(NavigateStack(nav, "NewInvoice"), newInvoice, preview, pending)
    /\ UNCHANGED <<now, notice, servicesStore, invoicesStore, calc>>

\* ------------------------------------------------------------ generatePDF
\* A run of generatePDF that waits for a collaborator: Print.printToFileAsync
\* ("print"), Sharing.isAvailableAsync ("available") or Sharing.shareAsync
\* ("share").  The run of a screen that was unmounted since is an orphan:
\* its setIsGeneratingPDF does nothing.
ExportRun(stage) == [stage |-> stage, orphan |-> FALSE]

WithoutRun(runs, i) == SubSeq(runs, 1, i - 1) \o SubSeq(runs, i + 1, Len(runs))

\* finally { setIsGeneratingPDF(false) }, skipped.
GeneratingAfterNoFinally(run) == preview.isGeneratingPDF

\* finally { setIsGeneratingPDF(false) }
GeneratingAfter(run) == IF run.orphan THEN preview.isGeneratingPDF ELSE FALSE

\* The run ends: its catch and finally blocks.
ExportEnds(i, alert) ==
    /\ preview' = [preview EXCEPT !.exports = WithoutRun(@, i),
                                  !.isGeneratingPDF = GeneratingAfter(preview.exports[i])]
    /\ notice' = alert

ExportFailed(i) == ExportEnds(i, "Failed to generate PDF. Please try again.")

\* The Generate PDF button, up to the first await or, on the web, to the
\* end: there the function has no await, and isGeneratingPDF is false again
\* in the render that follows.
generatePDF ==
    /\ CanTouch("Preview") /\ PreviewMode
    /\ ~preview.isGeneratingPDF
    /\ \E platform \in {"web", "web without pop-ups", "mobile"} :
         /\ preview' = IF platform = "mobile"
                       THEN [preview EXCEPT !.isGeneratingPDF = TRUE,
                                            !.exports = Append(@, ExportRun("print"))]
                       ELSE preview
         /\ notice' = IF platform = "web without pop-ups"
                      THEN "Please allow pop-ups for this site to generate PDFs"
                      ELSE notice
    /\ UNCHANGED <<now, nav, servicesStore, invoicesStore, newInvoice, pending, servicesScreen, calc>>

\* generatePDF after `await Print.printToFileAsync(...)`.
printSettled(i, ok) ==
    /\ i \in 1..Len(preview.exports) /\ preview.exports[i].stage = "print"
    /\ IF ok
       THEN /\ preview' = [preview EXCEPT !.exports[i].stage = "available"]
            /\ UNCHANGED notice
       ELSE ExportFailed(i)
    /\ UNCHANGED <<now, nav, servicesStore, invoicesStore, newInvoice, pending, servicesScreen, calc>>

\* generatePDF after `await Sharing.isAvailableAsync()`.
availabilitySettled(i, answer) ==
    /\ i \in 1..Len(preview.exports) /\ preview.exports[i].stage = "available"
    /\ IF answer = "available"
       THEN /\ preview' = [preview EXCEPT !.exports[i].stage = "share"]
            /\ UNCHANGED notice
       ELSE IF answer = "not available"
       THEN ExportEnds(i, "PDF Generated")
       ELSE ExportFailed(i)
    /\ UNCHANGED <<now, nav, servicesStore, invoicesStore, newInvoice, pending, servicesScreen, calc>>

\* generatePDF after `await Sharing.shareAsync(...)`.
shareSettled(i, ok) ==
    /\ i \in 1..Len(preview.exports) /\ preview.exports[i].stage = "share"
    /\ IF ok THEN ExportEnds(i, notice) ELSE ExportFailed(i)
    /\ UNCHANGED <<now, nav, servicesStore, invoicesStore, newInvoice, pending, servicesScreen, calc>>

\* -------------------------------------------------------- number to words
\* A text of words is a sequence of words and of single spaces.  A rupee
\* amount is kept as crores * 10^7 + rest with rest < 10^7, so that amounts
\* beyond 32 bits are exact, as they are in JavaScript up to 2^53.
Amount(crores, lakhs, thousands, remainder) ==
    [crores |-> crores, rest |-> lakhs * 100000 + thousands * 1000 + remainder]

ones == <<"", "One", "Two", "Three", "Four", "Five", "Six", "Seven", "Eight", "Nine">>

teens == <<"Ten", "Eleven", "Twelve", "Thirteen", "Fourteen", "Fifteen", "Sixteen",
           "Seventeen", "Eighteen", "Nineteen">>

tens == <<"", "", "Twenty", "Thirty", "Forty", "Fifty", "Sixty", "Seventy", "Eighty",
          "Ninety">>

\* table[i] inside a string concatenation: an index past the end of the
\* table gives undefined, which is concatenated as "undefined".
WordAt(table, i) ==
    IF i + 1 \in 1..Len(table)
    THEN (IF table[i + 1] = "" THEN <<>> ELSE <<table[i + 1]>>)
    ELSE <<"undefined">>

RECURSIVE convertLessThanThousand(_)
convertLessThanThousand(n) ==
    IF n = 0 THEN <<>>
    ELSE IF n < 10 THEN WordAt(ones, n)
    ELSE IF n < 20 THEN WordAt(teens, n - 10)
    ELSE IF n < 100
         THEN WordAt(tens, n \div 10)
              \o (IF n % 10 # 0 THEN <<" ">> \o WordAt(ones, n % 10) ELSE <<>>)
    ELSE WordAt(ones, n \div 100) \o <<" ", "Hundred">>
         \o (IF n % 100 # 0 THEN <<" ">> \o convertLessThanThousand(n % 100) ELSE <<>>)

numberToWords(num) ==
    LET crores == num.crores
        lakhs == num.rest \div 100000
        thousands == (num.rest % 100000) \div 1000
        remainder == num.rest % 1000
        result ==
            (IF crores > 0 THEN convertLessThanThousand(crores) \o <<" ", "Crore", " ">>
             ELSE <<>>)
            \o (IF lakhs > 0 THEN convertLessThanThousand(lakhs) \o <<" ", "Lakh", " ">>
                ELSE <<>>)
            \o (IF thousands > 0
                THEN convertLessThanThousand(thousands) \o <<" ", "Thousand", " ">>
                ELSE <<>>)
            \o (IF remainder > 0 THEN convertLessThanThousand(remainder) ELSE <<>>)
    IN  IF num.crores = 0 /\ num.rest = 0 THEN <<"Zero">>
        ELSE IF num.crores = 0 /\ num.rest < 1000 THEN convertLessThanThousand(num.rest)
        ELSE Trim(result)

\* numberToWords is called with the amount that calc holds.
numberToWordsCalled ==
    /\ calc.fn = "numberToWords" /\ ~calc.done
    /\ calc' = [calc EXCEPT !.out = numberToWords(calc.arg), !.done = TRUE]
    /\ UNCHANGED <<now, nav, notice, servicesStore, invoicesStore, newInvoice, preview,
                   pending, servicesScreen>>

\* An amount in rupees with paise hundredths is the number
\* crores * 10^7 + rest + paise / 100.
RupeeAmount(crores, rest, paise) == [crores |-> crores, rest |-> rest, paise |-> paise]

\* The words with the paise part whatever the paise are.
amountToWordsAlwaysPaise(amountInRupees) ==
    numberToWords([crores |-> amountInRupees.crores, rest |-> amountInRupees.rest])
        \o <<" ", "Rupees">>
        \o <<" ", "and", " ">>
        \o numberToWords([crores |-> 0, rest |-> amountInRupees.paise])
        \o <<" ", "Paise">>
        \o <<" ", "Only">>

\* rupees = Math.floor(amountInRupees) is the whole part and
\* paise = Math.round((amountInRupees - rupees) * 100) the hundredths.
amountToWords(amountInRupees) ==
    LET rupees == [crores |-> amountInRupees.crores, rest |-> amountInRupees.rest]
        paise == [crores |-> 0, rest |-> amountInRupees.paise]
        words == numberToWords(rupees) \o <<" ", "Rupees">>
        withPaise ==
            IF paise.rest > 0
            THEN words \o <<" ", "and", " ">> \o numberToWords(paise) \o <<" ", "Paise">>
            ELSE words
    IN  withPaise \o <<" ", "Only">>

\* amountToWords is called with the amount that calc holds.
amountToWordsCalled ==
    /\ calc.fn = "amountToWords" /\ ~calc.done
    /\ calc' = [calc EXCEPT !.out = amountToWords(calc.arg), !.done = TRUE]
    /\ UNCHANGED <<now, nav, notice, servicesStore, invoicesStore, newInvoice, preview,
                   pending, servicesScreen>>

\* ----------------------------------------------------------------- Services
\* A catalog written under the key of the invoices.
STORAGE_KEY_OfInvoices == "invoices_v1"

\* const STORAGE_KEY = "services_v1"
STORAGE_KEY == "services_v1"

INVOICES_KEY == "invoices_v1"

\* AsyncStorage.setItem(key, json), accepted by the store or not.
setItem(key, json, accepted) ==
    /\ servicesStore' = IF accepted /\ key = "services_v1" THEN json ELSE servicesStore
    /\ invoicesStore' = IF accepted /\ key = INVOICES_KEY THEN json ELSE invoicesStore

JsonService(srv) == [srv EXCEPT !.ratePaise = JsonNum(@)]

JsonServices(list) == [i \in 1..Len(list) |-> JsonService(list[i])]

RECURSIVE DigitPrefix(_)
DigitPrefix(s) ==
    IF s # <<>> /\ IsDigit(Head(s)) THEN <<Head(s)>> \o DigitPrefix(Tail(s)) ELSE <<>>

\* parseFloat(s): leading white space, an optional sign, digits, and a point
\* followed by digits; NaN when there is no digit at all.  The result is kept
\* as sign, integer part and fraction digits.  (Exponents are not typed in
\* the texts of this model.)
ParseFloat(s) ==
    LET t == TrimStart(s)
        neg == t # <<>> /\ Head(t) = "-"
        u == IF t # <<>> /\ Head(t) \in {"-", "+"} THEN Tail(t) ELSE t
        ip == DigitPrefix(u)
        r == SubSeq(u, Len(ip) + 1, Len(u))
        fp == IF r # <<>> /\ Head(r) = "." THEN DigitPrefix(Tail(r)) ELSE <<>>
    IN  IF ip = <<>> /\ fp = <<>>
        THEN [t |-> "nan", neg |-> FALSE, int |-> 0, frac |-> <<>>]
        ELSE [t |-> "num", neg |-> neg, int |-> DigitPrefixValue(ip, 0), frac |-> fp]

FracDigit(f, k) == IF Len(f.frac) >= k THEN DigitValue(f.frac[k]) ELSE 0

\* Math.round(f * 100): to the nearest integer, a half going up.  (The texts
\* of this model are not within a floating-point error of a half.)
RoundTimes100(f) ==
    LET m == f.int * 100 + FracDigit(f, 1) * 10 + FracDigit(f, 2)
        half == FracDigit(f, 3) >= 5
        overHalf == \/ FracDigit(f, 3) > 5
                    \/ FracDigit(f, 3) = 5 /\ \E k \in 4..Len(f.frac) : f.frac[k] # "0"
    IN  IF f.t = "nan" THEN NaN
        ELSE IF f.neg THEN Num(0 - (m + (IF overHalf THEN 1 ELSE 0)))
        ELSE Num(m + (IF half THEN 1 ELSE 0))

\* const rateNum = Math.round(parseFloat(rate || "0") * 100)
RateNum(rate) == RoundTimes100(ParseFloat(IF rate = <<>> THEN <<"0">> ELSE rate))

\* The last two digits without the zero that fills the tens.
TwoDigitsUnpadded(n) == IntToStr(n)

TwoDigits(n) == <<Digits[(n \div 10) + 1], Digits[(n % 10) + 1]>>

\* (s.ratePaise / 100).toFixed(2)
RateText(ratePaise) ==
    LET x == ToNumber(ratePaise)
        a == IF x.v < 0 THEN 0 - x.v ELSE x.v
    IN  IF x.t = "nan" THEN <<"N", "a", "N">>
        ELSE (IF x.v < 0 THEN <<"-">> ELSE <<>>)
             \o IntToStr(a \div 100) \o <<".">> \o TwoDigits(a % 100)

\* ------------------------------------------------------- invoice document
\* The HTML is a sequence of parts in the order of the template: a part is
\* a piece of the template's own text, a placeholder, or the value that
\* took the place of a placeholder.  The value of the items table is the
\* sequence of its rows, a row being its five cells.  A value holds no
\* placeholder of its own: the texts of the model are characters.
TemplateText(s) == [k |-> "text", s |-> s, v |-> <<>>]

Placeholder(s) == [k |-> "placeholder", s |-> s, v |-> <<>>]

getInvoiceTemplate ==
    <<TemplateText("mobile-numbers"), Placeholder("PHONE"),
      TemplateText("business-name"), Placeholder("BUSINESS_NAME"),
      TemplateText("address"), Placeholder("ADDRESS"),
      TemplateText("email"), Placeholder("EMAIL"),
      TemplateText("Bill no.:"), Placeholder("BILL_NO"),
      TemplateText("Date:"), Placeholder("DATE"),
      TemplateText("M/S:"), Placeholder("CUSTOMER_NAME"),
      TemplateText("items-table"), Placeholder("ITEMS_TABLE"),
      TemplateText("Rupees (in words):"), Placeholder("AMOUNT_WORDS"),
      TemplateText("total"), Placeholder("TOTAL"),
      TemplateText("signature")>>

\* html.replace(/\{\{NAME\}\}/g, value)
replace(html, name, value) ==
    [i \in 1..Len(html) |->
        IF html[i].k = "placeholder" /\ html[i].s = name
        THEN [k |-> "value", s |-> name, v |-> value]
        ELSE html[i]]

\* business.phone.replace(/\n/g, '<br>')
WithLineBreaks(text) ==
    [i \in 1..Len(text) |-> IF text[i] = "\n" THEN "<br>" ELSE text[i]]

\* `${number}`
NumberText(x) ==
    IF x.t = "nan" THEN <<"N", "a", "N">>
    ELSE IF x.t = "null" THEN <<"n", "u", "l", "l">>
    ELSE (IF x.v < 0 THEN <<"-">> ELSE <<>>) \o IntToStr(IF x.v < 0 THEN 0 - x.v ELSE x.v)

RupeeSign == <<"&#8377;">>

\* One row of the items table: the cells of item number index + 1.
ItemRow(item, index) ==
    LET amount == JsMul(item.ratePaise, item.quantity)
    IN  <<IntToStr(index + 1),
          item.serviceName,
          NumberText(item.quantity),
          RupeeSign \o RateText(item.ratePaise),
          RupeeSign \o RateText(amount)>>

\* The total in rupees without its paise.
InWholeRupees(totalPaise) ==
    LET t == ToNumber(totalPaise).v
    IN  RupeeAmount((t \div 100) \div 10000000, (t \div 100) % 10000000, 0)

\* invoice.totalPaise / 100, of a total that is not negative.
InRupees(totalPaise) ==
    LET t == ToNumber(totalPaise).v
    IN  RupeeAmount((t \div 100) \div 10000000, (t \div 100) % 10000000, t % 100)

\* The document with the bill number of the day it is generated.
generateInvoiceHTMLNumberedNow(invoice, business) ==
    replace(replace(getInvoiceTemplate, "BILL_NO", BillNumber(now)),
            "CUSTOMER_NAME", invoice.customerName)

generateInvoiceHTML(invoice, business) ==
    LET html1 == replace(getInvoiceTemplate, "BUSINESS_NAME", business.businessName)
        html2 == replace(html1, "ADDRESS", business.address)
        html3 == replace(html2, "PHONE", WithLineBreaks(business.phone))
        html4 == replace(html3, "EMAIL", business.email)
        html5 == replace(html4, "BILL_NO", invoice.billNo)
        html6 == replace(html5, "DATE", invoice.date)
        html7 == replace(html6, "CUSTOMER_NAME", invoice.customerName)
        itemsHTML == [i \in 1..Len(invoice.items) |-> ItemRow(invoice.items[i], i - 1)]
        html8 == replace(html7, "ITEMS_TABLE", itemsHTML)
        totalAmount == RateText(invoice.totalPaise)
        html9 == replace(html8, "TOTAL", totalAmount)
        amountWords == amountToWords(InRupees(invoice.totalPaise))
    IN  replace(html9, "AMOUNT_WORDS", amountWords)

\* generateInvoiceHTML is called with the invoice and the business details
\* that calc holds; calc.out keeps the document of every call.
generateInvoiceHTMLCalled ==
    /\ calc.fn = "generateInvoiceHTML"
    /\ calc' = [calc EXCEPT
                    !.out = Append(@, generateInvoiceHTML(calc.arg.invoice,
                                                          calc.arg.business)),
                    !.done = TRUE]
    /\ UNCHANGED <<now, nav, notice, servicesStore, invoicesStore, newInvoice, preview,
                   pending, servicesScreen>>

ServiceIds(list) == {list[i].id : i \in 1..Len(list)}

NewService(name, rate, t) ==
    [id |-> IntToStr(t), name |-> Trim(name), ratePaise |-> RateNum(rate)]

\* prev.map(p => (p.id === editing.id ? { ...p, name: name.trim(), ratePaise: rateNum } : p))
EditedServices(list, edited, name, rate) ==
    [i \in 1..Len(list) |->
        IF list[i].id = edited.id
        THEN [list[i] EXCEPT !.name = Trim(name), !.ratePaise = RateNum(rate)]
        ELSE list[i]]

WithoutService(list, id) ==
    LET Keep(srv) == srv.id # id IN SelectSeq(list, Keep)

\* The user can touch the list of the Services screen.
CanTouchServices == CanTouch("Services") /\ ~servicesScreen.modalVisible

\* The user can touch the modal of the Services screen.
CanTouchServiceModal == CanTouch("Services") /\ servicesScreen.modalVisible

\* saveServices(list) up to its await, as the persist effect calls it after
\* a render in which `services` changed.
saveServices(list, q) ==
    \E accepted \in BOOLEAN :
        /\ setItem(STORAGE_KEY, StoreArray(JsonServices(list)), accepted)
        /\ pending' = Append(q, Request("catWrite", accepted, NoInvoice, <<>>, FALSE))

\* Home's Services button: the screen is mounted, its load effect issues the
\* getItem and its persist effect writes the `services` of the first render.
openServices ==
    /\ CanTouch("Home")
    /\ nav' = NavigateStack(nav, "Services")
    /\ servicesScreen' = ServicesInitial
    /\ saveServices(ServicesInitial.services,
                    Append(pending, LoadRequest("catLoad", servicesStore,
                                                loadServices(servicesStore))))
    /\ UNCHANGED <<now, notice, newInvoice, preview, calc>>

\* The load effect after `await loadServices()`: setServices(loaded), and
\* the persist effect of the render that follows.
servicesScreenLoaded ==
    /\ pending # <<>> /\ Head(pending).k = "catLoad"
    /\ IF Head(pending).orphan
       THEN /\ pending' = Tail(pending)
            /\ UNCHANGED <<servicesScreen, servicesStore, invoicesStore>>
       ELSE /\ servicesScreen' = [servicesScreen EXCEPT !.services = Head(pending).list]
            /\ saveServices(Head(pending).list, Tail(pending))
    /\ UNCHANGED <<now, nav, notice, newInvoice, preview, calc>>

\* saveServices after its await: the catch only logs.
servicesSaved ==
    /\ pending # <<>> /\ Head(pending).k = "catWrite"
    /\ pending' = Tail(pending)
    /\ UNCHANGED <<now, nav, notice, servicesStore, invoicesStore, newInvoice, preview,
                   servicesScreen, calc>>

openAdd ==
    /\ CanTouchServices
    /\ servicesScreen' = [servicesScreen EXCEPT !.editing = <<>>, !.name = <<>>,
                                                !.rate = <<>>, !.modalVisible = TRUE]
    /\ UNCHANGED <<now, nav, notice, servicesStore, invoicesStore, newInvoice, preview,
                   pending, calc>>

openEdit(srv) ==
    /\ CanTouchServices
    /\ servicesScreen' = [servicesScreen EXCEPT !.editing = <<srv>>, !.name = srv.name,
                                                !.rate = RateText(srv.ratePaise),
                                                !.modalVisible = TRUE]
    /\ UNCHANGED <<now, nav, notice, servicesStore, invoicesStore, newInvoice, preview,
                   pending, calc>>

setName(txt) ==
    /\ CanTouchServiceModal
    /\ servicesScreen' = [servicesScreen EXCEPT !.name = txt]
    /\ UNCHANGED <<now, nav, notice, servicesStore, invoicesStore, newInvoice, preview,
                   pending, calc>>

setRate(txt) ==
    /\ CanTouchServiceModal
    /\ servicesScreen' = [servicesScreen EXCEPT !.rate = txt]
    /\ UNCHANGED <<now, nav, notice, servicesStore, invoicesStore, newInvoice, preview,
                   pending, calc>>

\* The modal's Cancel button.
cancelService ==
    /\ CanTouchServiceModal
    /\ servicesScreen' = [servicesScreen EXCEPT !.modalVisible = FALSE]
    /\ UNCHANGED <<now, nav, notice, servicesStore, invoicesStore, newInvoice, preview,
                   pending, calc>>

\* saveCurrent, and the persist effect of the render that follows it.
saveCurrent ==
    /\ CanTouchServiceModal
    /\ IF Trim(servicesScreen.name) = <<>>
       THEN /\ notice' = "Please provide a service name."
            /\ UNCHANGED <<servicesScreen, servicesStore, invoicesStore, pending>>
       ELSE LET sv == servicesScreen
                list == IF sv.editing # <<>>
                        THEN EditedServices(sv.services, sv.editing[1], sv.name, sv.rate)
                        ELSE <<NewService(sv.name, sv.rate, now)>> \o sv.services
            IN  /\ servicesScreen' = [sv EXCEPT !.services = list, !.modalVisible = FALSE]
                /\ saveServices(list, pending)
                /\ UNCHANGED notice
    /\ UNCHANGED <<now, nav, newInvoice, preview, calc>>

\* handleDelete(id): the updater filters and calls saveServices(updated), and
\* the persist effect of the render that follows writes the list once more.
handleDelete(id) ==
    /\ CanTouchServices
    /\ LET updated == WithoutService(servicesScreen.services, id)
       IN  /\ servicesScreen' = [servicesScreen EXCEPT !.services = updated]
           /\ \E first, second \in BOOLEAN :
                 /\ setItem(STORAGE_KEY, StoreArray(JsonServices(updated)), first \/ second)
                 /\ pending' = pending \o
                        <<Request("catWrite", first, NoInvoice, <<>>, FALSE),
                          Request("catWrite", second, NoInvoice, <<>>, FALSE)>>
    /\ UNCHANGED <<now, nav, notice, newInvoice, preview, calc>>

\* --------------------------------------------------------------------- Home
openNewInvoice ==
    /\ CanTouch("Home")
    /\ GoTo(NavigateStack(nav, "NewInvoice"), newInvoice, preview, pending)
    /\ UNCHANGED <<now, notice, servicesStore, invoicesStore, calc>>

openPreview ==
    /\ CanTouch("Home")
    /\ GoTo(NavigateStack(nav, "Preview"), newInvoice, preview, pending)
    /\ UNCHANGED <<now, notice, servicesStore, invoicesStore, calc>>

\* The header's back button pops the top screen.
goBack ==
    /\ Len(nav) > 1 /\ CanTouch(Top) /\ ~newInvoice.modalVisible
    /\ ~servicesScreen.modalVisible
    /\ GoTo(SubSeq(nav, 1, Len(nav) - 1), newInvoice, preview, pending)
    /\ UNCHANGED <<now, notice, servicesStore, invoicesStore, calc>>

dismissNotice ==
    /\ notice # NoNotice
    /\ notice' = NoNotice
    /\ UNCHANGED <<now, nav, servicesStore, invoicesStore, newInvoice, preview, pending, servicesScreen, calc>>

\* Date.now() is read in milliseconds; it need not differ between two reads.
Tick ==
    /\ now < MaxClock
    /\ now' = now + 1
    /\ UNCHANGED <<nav, notice, servicesStore, invoicesStore, newInvoice, preview, pending, servicesScreen, calc>>

\* ------------------------------------------------------------ specification
\* The application just started, on Home, with what earlier runs left in
\* the store.
Started ==
    /\ now = 1
    /\ nav = <<"Home">>
    /\ notice = NoNotice
    /\ newInvoice = NewInvoiceInitial
    /\ preview = PreviewInitial
    /\ servicesScreen = ServicesInitial
    /\ pending = <<>>

InitWith(catalogs) ==
    /\ Started
    /\ servicesStore \in {IF c = <<>> THEN StoreAbsent ELSE StoreArray(c) : c \in catalogs}
    /\ invoicesStore = StoreAbsent
    /\ calc = NoCalc

\* Composing the item list, with the texts the user may type and a cap on
\* the number of lines.
Compose(names, qtys, cap) ==
    \/ \E txt \in names : SetCustomerName(txt)
    \/ openServicePicker
    \/ closeServicePicker
    \/ \E i \in 1..Len(newInvoice.services) :
          Len(newInvoice.items) < cap /\ addService(newInvoice.services[i])
    \/ \E id \in ItemIds(newInvoice.items), qty \in qtys : updateQuantity(id, qty)
    \/ \E id \in ItemIds(newInvoice.items) : removeItem(id)
    \/ servicesLoaded
    \/ dismissNotice
    \/ Tick

\* Saving, with caps on the requests in flight and on the stored invoices.
Save(capPending, capStored) ==
    \/ handlePreview /\ Len(pending') <= capPending
    \/ saveInvoice /\ Len(invoicesStore'.list) <= capStored
    \/ handlePreviewSaved
    \/ previewLoaded
    \/ businessLoaded

Navigate(capPending) ==
    \/ openNewInvoice /\ Len(pending') <= capPending
    \/ goBack /\ Len(pending') <= capPending

History(capPending) ==
    \/ \E id \in InvoiceIds(preview.invoices) : deleteInvoice(id)
    \/ cancelDelete
    \/ confirmDelete /\ Len(pending') <= capPending
    \/ deleteSettled
    \/ createInvoice /\ Len(pending') <= capPending
    \/ openPreview /\ Len(pending') <= capPending

\* The editor alone: every text of every field.
EditorNext ==
    \/ Compose(CustomerNames, QtyTexts, MaxItems)
    \/ \E txt \in BillNoTexts : SetBillNo(txt)
    \/ \E txt \in DateTexts : SetDate(txt)
    \/ Navigate(MaxPending)

SpecEditor == InitWith(Catalogs) /\ [][EditorNext]_vars

\* Composing and saving invoices, one save at a time.
SaveNext ==
    \/ Compose(SaveNames, SaveQtyTexts, MaxSaveItems)
    \/ Save(MaxSavePending, MaxSaveStored)
    \/ Navigate(MaxSavePending)

SpecSave == InitWith({<<Service1>>}) /\ [][SaveNext]_vars

\* Composing and saving invoices, also while a save is in flight.
OverlapNext ==
    \/ Compose(OverlapNames, OverlapQtyTexts, MaxSaveItems)
    \/ Save(MaxPending, MaxStored)
    \/ Navigate(MaxPending)

SpecOverlap == InitWith({<<Service1>>}) /\ [][OverlapNext]_vars

\* Saving invoices, also while a save is in flight, and deleting them from
\* the list of recent invoices.
HistoryNext ==
    \/ Compose(HistoryNames, HistoryQtyTexts, MaxSaveItems)
    \/ Save(MaxPending, MaxStored)
    \/ History(MaxPending)
    \/ Navigate(MaxPending)

SpecHistory == InitWith({<<Service1>>}) /\ [][HistoryNext]_vars

\* Composing invoices of several lines from a catalog of two services, and
\* saving them one at a time.
OrderNext ==
    \/ Compose(OverlapNames, OverlapQtyTexts, MaxItems)
    \/ Save(MaxSavePending, MaxOrderStored)
    \/ Navigate(MaxSavePending)

SpecOrder == InitWith({<<Service2, Service1>>}) /\ [][OrderNext]_vars

\* An invoice that an earlier run composed from Service1 and saved.
EarlierInvoice ==
    JsonInvoice(NewInvoiceOf([NewInvoiceInitial EXCEPT !.customerName = <<"A">>,
                                                      !.billNo = BillNumber(0),
                                                      !.date = FormatToday,
                                                      !.items = <<NewItem(Service1, 0)>>], 0))

\* The Services screen: adding, editing and deleting services, with the
\* texts the user may type and caps on the catalog and on the requests in
\* flight.
Catalog(names, rates, capServices, capPending) ==
    \/ openServices /\ Len(pending') <= capPending
    \/ servicesScreenLoaded /\ Len(pending') <= capPending
    \/ servicesSaved
    \/ openAdd
    \/ \E i \in 1..Len(servicesScreen.services) : openEdit(servicesScreen.services[i])
    \/ \E txt \in names : setName(txt)
    \/ \E txt \in rates : setRate(txt)
    \/ cancelService
    \/ /\ saveCurrent
       /\ Len(servicesScreen'.services) <= capServices
       /\ Len(pending') <= capPending
    \/ \E id \in ServiceIds(servicesScreen.services) :
          handleDelete(id) /\ Len(pending') <= capPending
    \/ goBack
    \/ dismissNotice
    \/ Tick

\* Changing the catalog while an invoice of an earlier run is stored.
CatalogNext == Catalog(ServiceNames, CatalogRateTexts, MaxServices, MaxCatalogPending)

InitCatalog ==
    /\ Started
    /\ servicesStore \in {StoreAbsent, StoreArray(<<Service1>>)}
    /\ invoicesStore \in {StoreAbsent, StoreArray(<<EarlierInvoice>>)}
    /\ calc = NoCalc

SpecCatalog == InitCatalog /\ [][CatalogNext]_vars

\* Every text of the rate field.
RatesNext == Catalog(RateNames, RateTexts, MaxServices, MaxCatalogPending)

SpecRates == InitWith({<<>>}) /\ [][RatesNext]_vars

\* Every content of the key invoices_v1.
InvoiceStores ==
    {StoreAbsent, StoreEmptyText, StoreNotJson, StoreNotArray, StoreArray(<<EarlierInvoice>>)}

\* Composing and saving invoices over whatever the key invoices_v1 holds.
CorruptNext ==
    \/ Compose(OverlapNames, OverlapQtyTexts, MaxSaveItems)
    \/ Save(MaxSavePending, MaxSaveStored)
    \/ Navigate(MaxSavePending)

InitCorrupt ==
    /\ Started
    /\ servicesStore = StoreArray(<<Service1>>)
    /\ invoicesStore \in InvoiceStores
    /\ calc = NoCalc

SpecCorrupt == InitCorrupt /\ [][CorruptNext]_vars

\* The rupee amounts: every combination of the groups.
Amounts ==
    {Amount(c, l, t, r) : c \in CroreGroups, l \in LakhGroups, t \in ThousandGroups,
                          r \in RemainderGroups}

WordsNext == numberToWordsCalled

InitWords ==
    /\ Started
    /\ servicesStore = StoreAbsent
    /\ invoicesStore = StoreAbsent
    /\ calc \in {[NoCalc EXCEPT !.fn = "numberToWords", !.arg = a] : a \in Amounts}

SpecWords == InitWords /\ [][WordsNext]_vars

\* The amounts in rupees and paise: some rupee amounts with some paise.
PaiseValues == {0, 1, 9, 10, 35, 50, 99}

AmountsWithPaise ==
    {RupeeAmount(c, Amount(0, l, t, r).rest, p) :
        c \in {0, 1, 1000}, l \in {0, 12}, t \in {0, 34}, r \in {0, 1, 567},
        p \in PaiseValues}

AmountWordsNext == amountToWordsCalled

InitAmountWords ==
    /\ Started
    /\ servicesStore = StoreAbsent
    /\ invoicesStore = StoreAbsent
    /\ calc \in {[NoCalc EXCEPT !.fn = "amountToWords", !.arg = a] : a \in AmountsWithPaise}

SpecAmountWords == InitAmountWords /\ [][AmountWordsNext]_vars

\* The invoices of which a document is made: read from the store, with up
\* to MaxDocumentItems lines of a service at a quantity.
Service3 == [id |-> <<"9">>, name |-> <<"K">>, ratePaise |-> Num(9999999)]

DocumentQuantities == {Num(1), Num(3), Num(70), NaN}

DocumentItems ==
    {[NewItem(srv, 0) EXCEPT !.quantity = q] :
        srv \in {Service1, Service2, Service3}, q \in DocumentQuantities}

DocumentItemLists ==
    UNION {[1..n -> DocumentItems] : n \in 0..MaxDocumentItems}

DocumentInvoices ==
    {JsonInvoice(NewInvoiceOf([NewInvoiceInitial EXCEPT !.customerName = <<"A">>,
                                                       !.billNo = BillNumber(0),
                                                       !.date = FormatToday,
                                                       !.items = items], 0)) :
        items \in DocumentItemLists}

OtherBusiness ==
    [businessName |-> <<"B">>, address |-> <<"C">>, phone |-> <<"1">>, email |-> <<"e">>]

DocumentNext ==
    \/ (Len(calc.out) < MaxDocumentCalls /\ generateInvoiceHTMLCalled)
    \/ Tick

InitDocument ==
    /\ Started
    /\ servicesStore = StoreAbsent
    /\ invoicesStore = StoreAbsent
    /\ calc \in {[NoCalc EXCEPT !.fn = "generateInvoiceHTML",
                                 !.arg = [invoice |-> inv, business |-> b]] :
                    inv \in DocumentInvoices, b \in {DefaultBusiness, OtherBusiness}}

SpecDocument == InitDocument /\ [][DocumentNext]_vars

\* Opening the Services screen and leaving it, nothing else.
VisitCatalogs == {<<Service1>>, <<Service2, Service1>>}

VisitNext ==
    \/ openServices /\ Len(pending') <= MaxVisitPending
    \/ servicesScreenLoaded /\ Len(pending') <= MaxVisitPending
    \/ servicesSaved
    \/ goBack
    \/ Tick

InitVisit ==
    /\ Started
    /\ servicesStore \in {StoreArray(list) : list \in VisitCatalogs}
    /\ invoicesStore \in {StoreAbsent, StoreArray(<<EarlierInvoice>>)}
    /\ calc = NoCalc

SpecVisit == InitVisit /\ [][VisitNext]_vars

\* Adding a service right after the screen opened.
EarlyNext == Catalog(RateNames, CatalogRateTexts, MaxServices, MaxEarlyPending)

SpecEarly == InitCatalog /\ [][EarlyNext]_vars

\* The list of recent invoices: viewing, deleting and exporting.
LaterInvoice == [EarlierInvoice EXCEPT !.id = <<"1">>, !.createdAt = 1]

\* The collaborator that run number i waits for settles.
RunSettles(i) ==
    \/ \E ok \in BOOLEAN : printSettled(i, ok)
    \/ \E answer \in {"available", "not available", "fails"} :
           availabilitySettled(i, answer)
    \/ \E ok \in BOOLEAN : shareSettled(i, ok)

ExportSettles == \E i \in 1..MaxExports : RunSettles(i)

ViewerNext ==
    \/ openPreview /\ Len(pending') <= MaxViewerPending
    \/ previewLoaded
    \/ businessLoaded
    \/ \E i \in 1..Len(preview.invoices) : viewInvoice(preview.invoices[i])
    \/ closePreview
    \/ \E id \in InvoiceIds(preview.invoices) : deleteInvoice(id)
    \/ cancelDelete
    \/ confirmDelete /\ Len(pending') <= MaxViewerPending
    \/ deleteSettled
    \/ generatePDF /\ Len(preview'.exports) <= MaxExports
    \/ ExportSettles
    \/ goBack /\ Len(pending') <= MaxViewerPending
    \/ dismissNotice

InitViewer ==
    /\ Started
    /\ servicesStore = StoreArray(<<Service1>>)
    /\ invoicesStore \in {StoreArray(<<EarlierInvoice>>),
                          StoreArray(<<EarlierInvoice, LaterInvoice>>)}
    /\ calc = NoCalc

SpecViewer == InitViewer /\ [][ViewerNext]_vars

\* printToFileAsync, isAvailableAsync and shareAsync settle.
SpecExport == SpecViewer /\ \A i \in 1..MaxExports : WF_vars(RunSettles(i))

Init == InitWith(Catalogs)

Next == EditorNext \/ SaveNext \/ OverlapNext \/ HistoryNext \/ OrderNext \/ CatalogNext
            \/ RatesNext \/ CorruptNext \/ WordsNext \/ AmountWordsNext
            \/ DocumentNext \/ VisitNext \/ EarlyNext \/ ViewerNext

Spec == Init /\ [][Next]_vars

\* ------------------------------------------------------------------- claims
Stored == loadInvoices(invoicesStore)

RECURSIVE SumTo(_, _)
SumTo(f, n) == IF n = 0 THEN 0 ELSE f[n] + SumTo(f, n - 1)

LineIsNaN(it) == ToNumber(it.ratePaise).t = "nan" \/ ToNumber(it.quantity).t = "nan"

\* The sum of ratePaise * quantity over the lines of its, in JavaScript's
\* arithmetic: NaN as soon as one line is NaN.
SumOfLines(its) ==
    IF \E i \in 1..Len(its) : LineIsNaN(its[i]) THEN NaN
    ELSE Num(SumTo([i \in 1..Len(its) |->
                       ToNumber(its[i].ratePaise).v * ToNumber(its[i].quantity).v],
                   Len(its)))

\* C1: in the editor, calculateTotal() is the sum of ratePaise * quantity
\* over exactly the items now in the list, after any adds, quantity updates
\* and removals.
C1_TotalIsSumOfLines == calculateTotal(newInvoice.items) = SumOfLines(newInvoice.items)

C1_Witness ==
    /\ Len(newInvoice.items) = 2
    /\ newInvoice.items[1].ratePaise # newInvoice.items[2].ratePaise
    /\ newInvoice.items[1].quantity = Num(3)
    /\ newInvoice.items[2].quantity = Num(2)
    /\ calculateTotal(newInvoice.items).t = "num"

\* C2: every persisted invoice has totalPaise equal to the sum of
\* ratePaise * quantity over its own items.
C2_StoredTotalIsSumOfLines ==
    \A i \in 1..Len(Stored) : Stored[i].totalPaise = SumOfLines(Stored[i].items)

SavingKinds == {"saveLoad", "saveWrite"}

ValidInvoice(inv) == Trim(inv.customerName) # <<>> /\ Len(inv.items) >= 1

\* C3: every persisted invoice has a customer name that is not empty after
\* trimming and at least one item, and handlePreview hands no other invoice
\* to saveInvoice.
C3_OnlyValidInvoicesPersisted ==
    /\ \A i \in 1..Len(Stored) : ValidInvoice(Stored[i])
    /\ \A i \in 1..Len(pending) : pending[i].k \in SavingKinds => ValidInvoice(pending[i].inv)

C3_Witness ==
    /\ Len(Stored) >= 1
    /\ Top = "NewInvoice"
    /\ newInvoice.customerName = <<" ">>
    /\ Len(newInvoice.items) = 1
    /\ notice = "Please enter customer name"

Rejected ==
    Trim(newInvoice.customerName) = <<>> \/ Len(newInvoice.items) = 0

\* C4: a handlePreview that validation rejects shows a notice and changes
\* nothing else: the persisted invoices, the editor's fields and items, the
\* screen shown and the requests in flight stay as they were.
C4_RejectionChangesNothing ==
    [][(handlePreview /\ Rejected) =>
          /\ notice' \in {"Please enter customer name", "Please add at least one service"}
          /\ UNCHANGED <<invoicesStore, newInvoice, nav, pending, preview, servicesStore>>]_vars

C4_Witness ==
    /\ Len(Stored) >= 1
    /\ Top = "NewInvoice"
    /\ Trim(newInvoice.customerName) # <<>>
    /\ newInvoice.items = <<>>
    /\ notice = "Please add at least one service"

SaveWritten == saveInvoice /\ pending'[Len(pending')].ok

\* C5: a successful saveInvoice leaves the persisted collection equal to the
\* collection read when the save started, with the new invoice (as JSON
\* writes it) appended last; and what the save started from is the persisted
\* collection of that moment.
C5_SaveAppends ==
    [][/\ SaveWritten =>
            /\ invoicesStore'.kind = "array"
            /\ Len(invoicesStore'.list) = Len(Head(pending).list) + 1
            /\ \A i \in 1..Len(Head(pending).list) :
                   invoicesStore'.list[i] = Head(pending).list[i]
            /\ invoicesStore'.list[Len(invoicesStore'.list)] = JsonInvoice(Head(pending).inv)
       /\ (handlePreview /\ ~Rejected) =>
            pending'[Len(pending')].list = Stored]_vars

C5_Witness ==
    /\ Len(Stored) = 2
    /\ Stored[1].id # Stored[2].id
    /\ Stored[2].createdAt > Stored[1].createdAt

IsStored(inv) == \E i \in 1..Len(Stored) : Stored[i] = JsonInvoice(inv)

\* C6: an invoice whose save was reported successful is in the persisted
\* collection, unchanged, and stays there through every step that is not a
\* confirmed delete of its id.
C6_SavedInvoiceStays ==
    [][/\ (handlePreviewSaved /\ Head(pending).ok) => IsStored(Head(pending).inv)
       /\ \A i \in 1..Len(Stored) :
            \/ \E r \in {pending[j] : j \in 1..Len(pending)} :
                   r.k = "saveWrite" /\ JsonInvoice(r.inv) = Stored[i]
            \/ confirmDelete /\ preview.confirmDelete.id = Stored[i].id
            \/ \E j \in 1..Len(invoicesStore'.list) : invoicesStore'.list[j] = Stored[i]]_vars

SetOf(list) == {list[i] : i \in 1..Len(list)}

\* C7: after a confirmed deleteInvoice(id) whose write succeeds, the
\* persisted collection holds exactly the invoices persisted before the
\* delete whose id differs from id.
C7_DeleteRemovesOnlyThatId ==
    [][(confirmDelete /\ pending'[Len(pending')].ok) =>
          SetOf(invoicesStore'.list) =
              {inv \in SetOf(Stored) : inv.id # preview.confirmDelete.id}]_vars

\* C8: the persisted invoices have pairwise distinct ids.
C8_StoredIdsDistinct ==
    \A i, j \in 1..Len(Stored) : i # j => Stored[i].id # Stored[j].id

\* C9: the items of the editor's list have pairwise distinct ids.
C9_ItemIdsDistinct ==
    \A i, j \in 1..Len(newInvoice.items) :
        i # j => newInvoice.items[i].id # newInvoice.items[j].id

IsQuantity(q) == q.t = "num" /\ q.v >= 0

\* C10: every item of the editor's list and of every persisted invoice has a
\* quantity that is an integer >= 0, whatever text updateQuantity was given.
C10_QuantitiesAreNaturals ==
    /\ \A i \in 1..Len(newInvoice.items) : IsQuantity(newInvoice.items[i].quantity)
    /\ \A i \in 1..Len(Stored) : \A k \in 1..Len(Stored[i].items) :
           IsQuantity(Stored[i].items[k].quantity)

\* C11: addService(service) appends exactly one item at the end of the
\* editor's list, with quantity 1 and the service's id, name and rate, and
\* leaves the items that were there unchanged and in the same order.
C11_AddServiceAppendsOne ==
    [][\A n \in 1..Len(newInvoice.services) :
          addService(newInvoice.services[n]) =>
              LET before == newInvoice.items
                  after == newInvoice.items'
                  added == after[Len(after)]
              IN  /\ Len(after) = Len(before) + 1
                  /\ \A i \in 1..Len(before) : after[i] = before[i]
                  /\ added.quantity = Num(1)
                  /\ added.serviceId = newInvoice.services[n].id
                  /\ added.serviceName = newInvoice.services[n].name
                  /\ added.ratePaise = newInvoice.services[n].ratePaise]_vars

C11_Witness ==
    /\ Len(newInvoice.items) = 2
    /\ ~newInvoice.modalVisible
    /\ newInvoice.items[1].serviceId = Service1.id
    /\ newInvoice.items[1].quantity = Num(3)
    /\ newInvoice.items[2].serviceId = Service2.id
    /\ newInvoice.items[2].quantity = Num(1)
    /\ newInvoice.items[2].id # newInvoice.items[1].id

Changed(before, after) == {i \in 1..Len(before) : after[i] # before[i]}

\* C12: updateQuantity(id, text) leaves the list unchanged when the parsed
\* quantity is negative; otherwise the list keeps its length and order, at
\* most one item changes, that item has the id given, and only its quantity
\* changes.
C12_UpdateQuantityChangesOneItem ==
    [][\A id \in ItemIds(newInvoice.items), qty \in QtyTexts :
          updateQuantity(id, qty) =>
              LET before == newInvoice.items
                  after == newInvoice.items'
              IN  IF JsLessThanZero(ParseInt(IF qty = <<>> THEN <<"0">> ELSE qty))
                  THEN after = before
                  ELSE /\ Len(after) = Len(before)
                       /\ Cardinality(Changed(before, after)) <= 1
                       /\ \A i \in Changed(before, after) :
                              /\ before[i].id = id
                              /\ after[i] = [before[i] EXCEPT !.quantity = after[i].quantity]]_vars

RECURSIVE IsSubsequence(_, _)
IsSubsequence(part, whole) ==
    IF part = <<>> THEN TRUE
    ELSE IF whole = <<>> THEN FALSE
    ELSE IF Head(part) = Head(whole) THEN IsSubsequence(Tail(part), Tail(whole))
    ELSE IsSubsequence(part, Tail(whole))

\* C13: removeItem(id) removes exactly one item, the one whose id is id, and
\* keeps the other items unchanged and in the same relative order.
C13_RemoveItemRemovesOne ==
    [][\A id \in ItemIds(newInvoice.items) :
          removeItem(id) =>
              LET before == newInvoice.items
                  after == newInvoice.items'
              IN  /\ Len(after) = Len(before) - 1
                  /\ IsSubsequence(after, before)
                  /\ \A i \in 1..Len(before) :
                         before[i].id # id => \E j \in 1..Len(after) : after[j] = before[i]]_vars

SameButQuantities(before, after) ==
    /\ Len(after) = Len(before)
    /\ \A i \in 1..Len(before) : after[i] = [before[i] EXCEPT !.quantity = after[i].quantity]

\* One step keeps the order of insertion: the list is emptied, or gets one
\* item at its end, or loses items without moving the others, or changes
\* quantities in place.
KeepsInsertionOrder(before, after) ==
    \/ after = <<>>
    \/ Len(after) = Len(before) + 1 /\ SubSeq(after, 1, Len(before)) = before
    \/ IsSubsequence(after, before)
    \/ SameButQuantities(before, after)

\* C14: the editor's list is kept in insertion order by every step, a
\* successful handlePreview builds its invoice with the items in the order of
\* the list, and saveInvoice persists the invoice with the items in that
\* order.
C14_ItemsInInsertionOrder ==
    [][/\ KeepsInsertionOrder(newInvoice.items, newInvoice.items')
       /\ (handlePreview /\ ~Rejected) =>
              pending'[Len(pending')].inv.items = newInvoice.items
       /\ SaveWritten =>
              LET saved == invoicesStore'.list[Len(invoicesStore'.list)].items
                  given == Head(pending).inv.items
              IN  /\ Len(saved) = Len(given)
                  /\ \A i \in 1..Len(given) : saved[i] = JsonItem(given[i])]_vars

C14_Witness ==
    /\ Len(Stored) >= 1
    /\ Len(Stored[1].items) = 2
    /\ Stored[1].items[1].serviceId = Service1.id
    /\ Stored[1].items[2].serviceId = Service2.id

\* C15: saveCurrent and handleDelete never change the persisted invoice
\* collection: the collection loaded after the step equals the collection
\* loaded before it, so every stored invoice, with the serviceName, ratePaise
\* and quantity of its items and its totalPaise, is the same.
C15_CatalogChangeKeepsInvoices ==
    [][(saveCurrent \/ \E id \in ServiceIds(servicesScreen.services) : handleDelete(id)) =>
          /\ invoicesStore'.kind = invoicesStore.kind
          /\ loadInvoices(invoicesStore') = Stored]_vars

C15_Witness ==
    /\ Stored = <<EarlierInvoice>>
    /\ Stored[1].items[1].serviceId = Service1.id
    /\ Stored[1].items[1].serviceName = Service1.name
    /\ Stored[1].items[1].ratePaise = Service1.ratePaise
    /\ servicesStore.kind = "array"
    /\ Len(servicesStore.list) = 1
    /\ servicesStore.list[1].id = Service1.id
    /\ servicesStore.list[1].name = <<"H">>
    /\ servicesStore.list[1].ratePaise = Num(124)

NewestFirst(list) ==
    \A i \in 1..(Len(list) - 1) : list[i].createdAt >= list[i + 1].createdAt

C17_CorruptStoreLoadsEmpty ==
    [][/\ (handlePreview /\ ~Rejected) =>
              LET r == pending'[Len(pending')]
              IN  /\ r.array
                  /\ r.list = IF invoicesStore.kind = "array" THEN invoicesStore.list ELSE <<>>
       /\ saveInvoice => (pending'[Len(pending')].ok \/ Head(pending).array)]_vars

FailureNotices ==
    {"Error saving invoice. Please try again.", "Failed to delete invoice",
     "Failed to save business details. Please try again."}

\* A write that the store refused has just been reported back to the code
\* that awaited it.
FailedWriteSettles ==
    /\ pending # <<>>
    /\ Head(pending).k \in {"saveWrite", "delWrite", "catWrite"}
    /\ ~Head(pending).ok
    /\ Head(pending).array
    /\ pending' = Tail(pending)

\* C18: whenever a write to the store fails (an invoice, the catalog, a
\* delete), the user is shown a failure notice.
C18_FailedWriteShowsNotice ==
    [][FailedWriteSettles => notice' \in FailureNotices]_vars

IsRatePaise(r) == r.t = "num" /\ r.v >= 0

\* C19: every service that saveCurrent puts in the catalog, on the screen
\* and in the store, has a ratePaise that is an integer >= 0, whatever text
\* the rate field holds.
C19_RatesAreNaturals ==
    /\ \A i \in 1..Len(servicesScreen.services) :
           IsRatePaise(servicesScreen.services[i].ratePaise)
    /\ \A i \in 1..Len(loadServices(servicesStore)) :
           IsRatePaise(loadServices(servicesStore)[i].ratePaise)

NumberWords ==
    {ones[i] : i \in 2..10} \cup {teens[i] : i \in 1..10} \cup {tens[i] : i \in 3..10}
        \cup {"Hundred"}

\* The words of a group from 1 to 999: the hundreds digit and "Hundred",
\* then the words of the two last digits.
WordsBelowHundred(g) ==
    IF g = 0 THEN <<>>
    ELSE IF g < 10 THEN <<ones[g + 1]>>
    ELSE IF g < 20 THEN <<teens[g - 9]>>
    ELSE <<tens[(g \div 10) + 1]>> \o (IF g % 10 = 0 THEN <<>> ELSE <<ones[(g % 10) + 1]>>)

WordsOfGroup(g) ==
    (IF g >= 100 THEN <<ones[(g \div 100) + 1], "Hundred">> ELSE <<>>)
        \o WordsBelowHundred(g % 100)

\* A non-zero group's words followed by its unit word, nothing for a group
\* that is zero.
GroupWithUnit(g, unit) == IF g = 0 THEN <<>> ELSE WordsOfGroup(g) \o unit

RECURSIVE Spaced(_)
Spaced(words) ==
    IF Len(words) <= 1 THEN words
    ELSE <<Head(words), " ">> \o Spaced(Tail(words))

ExpectedWords(n) ==
    Spaced(GroupWithUnit(n.crores, <<"Crore">>)
           \o GroupWithUnit(n.rest \div 100000, <<"Lakh">>)
           \o GroupWithUnit((n.rest % 100000) \div 1000, <<"Thousand">>)
           \o GroupWithUnit(n.rest % 1000, <<>>))

\* C20: for every rupee amount n >= 1, numberToWords(n) is made of number
\* words and unit words only, has no white space at either end, and, the
\* words of a group being those of a number from 1 to 999, is the words of
\* the non-zero groups crore, lakh, thousand, remainder in that order, each
\* followed by its unit word and separated by single spaces.
C20_WordsOfGroups ==
    (calc.fn = "numberToWords" /\ calc.done /\ (calc.arg.crores > 0 \/ calc.arg.rest > 0)) =>
        /\ calc.out # <<>>
        /\ ~IsSpace(calc.out[1]) /\ ~IsSpace(calc.out[Len(calc.out)])
        /\ \A i \in 1..Len(calc.out) :
               calc.out[i] \in NumberWords \cup {"Crore", "Lakh", "Thousand", " "}
        /\ calc.arg.crores < 1000 => calc.out = ExpectedWords(calc.arg)


\* C21: for every rupee amount r and paise p in 0..99, amountToWords of
\* r + p/100 is the words of r, " Rupees", then " and ", the words of p and
\* " Paise" exactly when p > 0, then " Only"; for zero it is
\* "Zero Rupees Only".
C21_AmountToWordsComposition ==
    (calc.fn = "amountToWords" /\ calc.done) =>
        LET r == [crores |-> calc.arg.crores, rest |-> calc.arg.rest]
            p == calc.arg.paise
        IN  /\ p = 0 => calc.out = numberToWords(r) \o <<" ", "Rupees", " ", "Only">>
            /\ p > 0 =>
                   calc.out = numberToWords(r) \o <<" ", "Rupees", " ", "and", " ">>
                                  \o ExpectedWords([crores |-> 0, rest |-> p])
                                  \o <<" ", "Paise", " ", "Only">>
            /\ (r.crores = 0 /\ r.rest = 0 /\ p = 0) =>
                   calc.out = <<"Zero", " ", "Rupees", " ", "Only">>

C21_Witness ==
    /\ calc.fn = "amountToWords" /\ calc.done
    /\ calc.arg.paise = 35 /\ calc.arg.rest = 1200567 /\ calc.arg.crores = 1
    /\ calc.out = <<"One", " ", "Crore", " ", "Twelve", " ", "Lakh", " ", "Five", " ",
                    "Hundred", " ", "Sixty", " ", "Seven", " ", "Rupees", " ", "and", " ",
                    "Thirty", " ", "Five", " ", "Paise", " ", "Only">>


\* The part of the document that took the place of a placeholder.
Field(html, name) ==
    html[CHOOSE i \in 1..Len(html) : html[i].k = "value" /\ html[i].s = name].v

HasField(html, name) ==
    \E i \in 1..Len(html) : html[i].k = "value" /\ html[i].s = name

IndexIn(table, word) == CHOOSE i \in 1..Len(table) : table[i] = word

InTable(table, word) == \E i \in 1..Len(table) : table[i] = word

\* The number that a text of number words and unit words denotes.
RECURSIVE NumberOfWords(_, _, _)
NumberOfWords(words, group, sum) ==
    IF words = <<>> THEN sum + group
    ELSE LET w == Head(words)
             rest == Tail(words)
         IN  IF w = "Crore" THEN NumberOfWords(rest, 0, sum + group * 10000000)
             ELSE IF w = "Lakh" THEN NumberOfWords(rest, 0, sum + group * 100000)
             ELSE IF w = "Thousand" THEN NumberOfWords(rest, 0, sum + group * 1000)
             ELSE IF w = "Hundred" THEN NumberOfWords(rest, group * 100, sum)
             ELSE IF w # "" /\ InTable(ones, w)
                  THEN NumberOfWords(rest, group + IndexIn(ones, w) - 1, sum)
             ELSE IF InTable(teens, w)
                  THEN NumberOfWords(rest, group + IndexIn(teens, w) + 9, sum)
             ELSE IF w # "" /\ InTable(tens, w)
                  THEN NumberOfWords(rest, group + (IndexIn(tens, w) - 1) * 10, sum)
             ELSE IF w \in {" ", "Zero"} THEN NumberOfWords(rest, group, sum)
             ELSE -1

\* The paise that the phrase "<rupees> Rupees [and <paise> Paise] Only"
\* denotes, -1 when it is no such phrase.
PaiseOfPhrase(phrase) ==
    IF ~InTable(phrase, "Rupees") \/ phrase[Len(phrase)] # "Only" THEN -1
    ELSE LET r == IndexIn(phrase, "Rupees")
             rupees == NumberOfWords(SubSeq(phrase, 1, r - 1), 0, 0)
             paise ==
                 IF InTable(phrase, "Paise")
                 THEN NumberOfWords(SubSeq(phrase, r + 3, IndexIn(phrase, "Paise") - 1), 0, 0)
                 ELSE 0
         IN  IF rupees < 0 \/ paise < 0 \/ paise > 99 THEN -1 ELSE rupees * 100 + paise

\* The paise that a text "<digits>.<two digits>" denotes, -1 when it is no
\* such text.
PaiseOfDecimal(text) ==
    IF Len(text) >= 4 /\ text[Len(text) - 2] = "."
       /\ \A i \in 1..Len(text) : i # Len(text) - 2 => IsDigit(text[i])
    THEN DigitPrefixValue(SubSeq(text, 1, Len(text) - 3), 0) * 100
         + DigitValue(text[Len(text) - 1]) * 10 + DigitValue(text[Len(text)])
    ELSE -1

RupeesAndPaise(a) ==
    IntToStr(a \div 100) \o <<".">>
        \o (IF a % 100 < 10 THEN <<"0">> ELSE <<>>) \o IntToStr(a % 100)

\* C23: the amount of every line of the document is the integer product
\* a = ratePaise * quantity, shown as a div 100, a decimal point and a mod
\* 100 on two digits, without separators; 12345 * 3 is shown as 370.35.
C23_LineAmountShown ==
    (calc.fn = "generateInvoiceHTML" /\ calc.done) =>
        LET items == calc.arg.invoice.items
            html == calc.out[1]
        IN  /\ HasField(html, "ITEMS_TABLE")
            /\ Len(Field(html, "ITEMS_TABLE")) = Len(items)
            /\ \A i \in 1..Len(items) :
                   (items[i].ratePaise.t = "num" /\ items[i].quantity.t = "num"
                    /\ items[i].ratePaise.v >= 0 /\ items[i].quantity.v >= 0) =>
                       Field(html, "ITEMS_TABLE")[i][5]
                           = RupeeSign
                             \o RupeesAndPaise(items[i].ratePaise.v * items[i].quantity.v)

C23_Witness ==
    /\ calc.fn = "generateInvoiceHTML" /\ calc.done
    /\ Len(calc.arg.invoice.items) = 2
    /\ calc.arg.invoice.items[2].ratePaise = Num(12345)
    /\ calc.arg.invoice.items[2].quantity = Num(3)
    /\ Field(calc.out[1], "ITEMS_TABLE")[2][5]
           = RupeeSign \o <<"3", "7", "0", ".", "3", "5">>
    /\ calc.arg.invoice.items[1].ratePaise = Num(9999999)
    /\ calc.arg.invoice.items[1].quantity = Num(70)
    /\ Field(calc.out[1], "ITEMS_TABLE")[1][5]
           = RupeeSign \o <<"6", "9", "9", "9", "9", "9", "9", ".", "3", "0">>

C26_VisitKeepsCatalog ==
    (nav = <<"Home">> /\ pending = <<>>) =>
        /\ servicesStore.kind = "array"
        /\ loadServices(servicesStore) \in VisitCatalogs


\* C27: a service that is in the catalog of the mounted Services screen
\* stays in it, with its name and rate, over every step that is neither
\* saveCurrent nor handleDelete; in particular over the step that completes
\* the mount-time load.
C27_SavedServiceStays ==
    [][(Top = "Services" /\ nav' = nav
        /\ ~saveCurrent
        /\ ~(\E id \in ServiceIds(servicesScreen.services) : handleDelete(id))) =>
           \A i \in 1..Len(servicesScreen.services) :
               \E j \in 1..Len(servicesScreen.services') :
                   servicesScreen.services'[j] = servicesScreen.services[i]]_vars


\* The invoice is the one of the form as it stands: composed on the mounted
\* editor, with the form's fields and items.
OfThisForm(r) ==
    /\ ~r.orphan
    /\ r.inv.billNo = newInvoice.billNo
    /\ r.inv.date = newInvoice.date
    /\ r.inv.customerName = Trim(newInvoice.customerName)
    /\ r.inv.items = newInvoice.items

\* The save of this form that has appended its invoice and has not reached
\* the reset of the form yet.
AppendedNotReset ==
    \E i \in 1..Len(pending) :
        /\ pending[i].k = "saveWrite" /\ pending[i].ok
        /\ OfThisForm(pending[i])
        /\ IsStored(pending[i].inv)

\* C28: for one composed form at most one invoice is appended to the
\* persisted collection: once a save of the form has appended its invoice,
\* pressing Save & Preview again before the form is reset starts no second
\* save of that form (whose load would hold the first invoice and whose
\* write would append a second one).
C28_OneInvoicePerForm ==
    [][(handlePreview /\ ~Rejected) => ~AppendedNotReset]_vars

\* C29: handlePreview resets the form and navigates to Preview exactly when
\* the write of the new invoice succeeded, and the load that the Preview
\* screen then starts on focus holds the new invoice; after a failed write
\* the form and the screen shown stay as they were.
C29_ResetAfterStoredWrite ==
    [][handlePreviewSaved =>
          LET r == Head(pending)
          IN  IF r.ok
              THEN /\ Top' = "Preview"
                   /\ ~r.orphan =>
                          /\ newInvoice'.customerName = <<>>
                          /\ newInvoice'.items = <<>>
                   /\ Len(pending') = Len(pending) =>
                          /\ pending'[Len(pending')].k = "pvLoad"
                          /\ \E i \in 1..Len(pending'[Len(pending')].list) :
                                 pending'[Len(pending')].list[i] = JsonInvoice(r.inv)
              ELSE UNCHANGED <<nav, newInvoice>>]_vars


\* The Delete button's write of the selected invoice has not returned yet.
DeleteOfSelectedInFlight ==
    \E i \in 1..Len(pending) :
        /\ pending[i].k = "delWrite" /\ ~pending[i].orphan
        /\ pending[i].list = preview.selectedInvoice

\* C30: on the Preview screen, whenever selectedInvoice is not null an
\* invoice with its id is in the list `invoices`, except for the time the
\* delete of the selected invoice waits for its write, after which the
\* selection is cleared and the preview closed.
C30_SelectedIsListed ==
    (Mounted(nav, "Preview") /\ preview.selectedInvoice # <<>>) =>
        \/ preview.selectedInvoice[1].id \in InvoiceIds(preview.invoices)
        \/ DeleteOfSelectedInFlight


\* A collaborator of run number i fails.
RunFails(i) ==
    \/ printSettled(i, FALSE)
    \/ availabilitySettled(i, "fails")
    \/ shareSettled(i, FALSE)

LiveRuns == {i \in 1..Len(preview.exports) : ~preview.exports[i].orphan}

\* C25: every run of generatePDF ends with isGeneratingPDF false again,
\* whether the export succeeds or fails; when printing or sharing fails the
\* failure notice is shown; and the screen never has two exports under way:
\* isGeneratingPDF is true exactly while its one run waits.
C25_ExportFinishes ==
    /\ preview.isGeneratingPDF ~> ~preview.isGeneratingPDF
    /\ [][\A i \in 1..MaxExports :
             RunFails(i) => /\ notice' = "Failed to generate PDF. Please try again."
                            /\ Len(preview'.exports) = Len(preview.exports) - 1
                            /\ preview.exports[i].orphan \/ ~preview'.isGeneratingPDF]_vars
    /\ [](/\ Cardinality(LiveRuns) <= 1
          /\ preview.isGeneratingPDF <=> LiveRuns # {})

C25_Witness ==
    /\ Top = "Preview" /\ PreviewMode
    /\ notice = "Failed to generate PDF. Please try again."
    /\ ~preview.isGeneratingPDF
    /\ preview.exports = <<>>

====
